---- MODULE Spec2Model ----
(***************************************************************************)
(* Audio submission lifecycle of the UniPiano backend: the endpoints of    *)
(* app/api/v1/endpoints/audio.py driving AudioService                      *)
(* (app/services/audio_service.py) against the audio_submissions table.    *)
(*                                                                         *)
(* Every `await` of a handler is a scheduling point: one action of the     *)
(* model resumes a request after its previous store call, runs it up to    *)
(* its next store call and lets the store apply that call.  A store call   *)
(* either takes effect or raises and leaves the table unchanged; a call    *)
(* that raises is taken together with the handler's next step, since it    *)
(* changes nothing another request can see.                                *)
(***************************************************************************)
EXTENDS Integers, Sequences, FiniteSets, TLC

MaxIds == 2        \* submissions that can ever be created
MaxNotes == 3      \* longest note sequence handed to the analyzer
MaxFrames == 3     \* longest pitch track handed to detect_notes
MaxUploads == 4    \* calls of upload_content that are followed

Users == {"alice", "bob"}
\* the users who upload (the others only send requests for submissions)
Uploaders == {"alice"}
Exercises == {"ex1"}
Ids == 1..MaxIds
\* the requests the server handles concurrently
Procs == {"r1", "r2"}

\* db: the audio_submissions table, a row per submission id
\* next_id: the number of ids handed out (an id stands for a uuid4)
\* temp_files: the requests whose temporary file is on disk
\* req: the request each slot is handling, and how far it has got
\* call: the call of an AudioAnalyzer method or of the middleware last made,
\*       with what it returned
\* content: the upload directory and the content table of ContentService,
\*          and the upload_content call in progress
VARIABLES db, next_id, temp_files, req, call, content

vars == <<db, next_id, temp_files, req, call, content>>

(***************************************************************************)
(* Python values, str() and json.loads                                     *)
(***************************************************************************)
\* a Python int
PyInt(n) == [t |-> "int", n |-> n, s |-> "", items |-> <<>>]
\* a Python str
PyText(s) == [t |-> "str", n |-> 0, s |-> s, items |-> <<>>]
\* a Python list
PyList(xs) == [t |-> "list", n |-> 0, s |-> "", items |-> xs]
\* a Python dict: a sequence of <<key, value>> pairs in insertion order
PyDict(kvs) == [t |-> "dict", n |-> 0, s |-> "", items |-> kvs]

\* characters of a serialized text, grouped into lexical tokens
Punct(c) == [k |-> "punct", q |-> "", s |-> c, n |-> 0]
StrTok(q, s) == [k |-> "str", q |-> q, s |-> s, n |-> 0]
IntTok(n) == [k |-> "int", q |-> "", s |-> "", n |-> n]

\* repr() of a str: single quotes (no string of the analysis holds a quote)
PyReprQuote == "'"
\* the quote character JSON requires around strings and member names
JsonQuote == "\""

RECURSIVE PyStr(_)
RECURSIVE PyStrItems(_, _)
\* the elements of a list or the members of a dict, separated by commas
PyStrItems(kind, xs) ==
  IF xs = <<>> THEN <<>>
  ELSE LET one == IF kind = "dict"
                  THEN <<StrTok(PyReprQuote, xs[1][1]), Punct(":")>> \o PyStr(xs[1][2])
                  ELSE PyStr(xs[1])
       IN one \o (IF Len(xs) > 1 THEN <<Punct(",")>> ELSE <<>>)
              \o PyStrItems(kind, Tail(xs))
\* str(value) of a Python value (for dict, list, int: its repr)
PyStr(v) ==
  CASE v.t = "int" -> <<IntTok(v.n)>>
    [] v.t = "str" -> <<StrTok(PyReprQuote, v.s)>>
    [] v.t = "list" -> <<Punct("[")>> \o PyStrItems("list", v.items) \o <<Punct("]")>>
    [] v.t = "dict" -> <<Punct("{")>> \o PyStrItems("dict", v.items) \o <<Punct("}")>>

\* result of a parse step: ok, the value parsed and the remaining tokens
ParseFail == [ok |-> FALSE, val |-> PyInt(0), rest |-> <<>>]
ParseOk(v, rest) == [ok |-> TRUE, val |-> v, rest |-> rest]
IsPunct(toks, c) == toks # <<>> /\ toks[1].k = "punct" /\ toks[1].s = c

RECURSIVE JsonValue(_)
RECURSIVE JsonElements(_, _)
RECURSIVE JsonMembers(_, _)
\* elements of an array after "[" (acc: the elements parsed so far)
JsonElements(toks, acc) ==
  LET e == JsonValue(toks) IN
  IF ~e.ok THEN ParseFail
  ELSE IF IsPunct(e.rest, ",") THEN JsonElements(Tail(e.rest), Append(acc, e.val))
  ELSE IF IsPunct(e.rest, "]") THEN ParseOk(PyList(Append(acc, e.val)), Tail(e.rest))
  ELSE ParseFail
\* members of an object after "{" (acc: the members parsed so far)
JsonMembers(toks, acc) ==
  IF toks = <<>> \/ toks[1].k # "str" \/ toks[1].q # JsonQuote THEN ParseFail
  ELSE IF ~IsPunct(Tail(toks), ":") THEN ParseFail
  ELSE LET e == JsonValue(Tail(Tail(toks))) IN
       IF ~e.ok THEN ParseFail
       ELSE IF IsPunct(e.rest, ",")
            THEN JsonMembers(Tail(e.rest), Append(acc, <<toks[1].s, e.val>>))
       ELSE IF IsPunct(e.rest, "}")
            THEN ParseOk(PyDict(Append(acc, <<toks[1].s, e.val>>)), Tail(e.rest))
       ELSE ParseFail
\* one JSON value at the head of the tokens
JsonValue(toks) ==
  IF toks = <<>> THEN ParseFail
  ELSE IF toks[1].k = "int" THEN ParseOk(PyInt(toks[1].n), Tail(toks))
  ELSE IF toks[1].k = "str"
       THEN IF toks[1].q = JsonQuote THEN ParseOk(PyText(toks[1].s), Tail(toks))
            ELSE ParseFail
  ELSE IF IsPunct(toks, "[")
       THEN IF IsPunct(Tail(toks), "]") THEN ParseOk(PyList(<<>>), Tail(Tail(toks)))
            ELSE JsonElements(Tail(toks), <<>>)
  ELSE IF IsPunct(toks, "{")
       THEN IF IsPunct(Tail(toks), "}") THEN ParseOk(PyDict(<<>>), Tail(Tail(toks)))
            ELSE JsonMembers(Tail(toks), <<>>)
  ELSE ParseFail
\* json.loads(text): the value, or ok = FALSE for json.JSONDecodeError
JsonLoads(text) ==
  LET r == JsonValue(text) IN
  IF r.ok /\ r.rest = <<>> THEN r ELSE ParseFail

\* an analysis whose score depends on how many submissions have been stored
analysis_result_by_uploads ==
  PyDict(<< <<"overall_score", PyInt(88 - next_id)>>,
            <<"feedback", PyText("Great job!")>>,
            <<"suggestions", PyList(<<PyText("Practice scales")>>)>> >>)

\* the analysis_result of analyze_audio
analysis_result ==
  PyDict(<<
    <<"tempo", PyDict(<< <<"detected", PyInt(120)>>, <<"target", PyInt(120)>>,
                         <<"accuracy", PyInt(95)>> >>)>>,
    <<"pitch_accuracy", PyDict(<< <<"correct_notes", PyInt(85)>>,
                                  <<"total_notes", PyInt(100)>>,
                                  <<"accuracy_percentage", PyInt(85)>> >>)>>,
    <<"rhythm_accuracy", PyDict(<< <<"timing_score", PyInt(88)>>,
                                   <<"consistency", PyInt(92)>> >>)>>,
    <<"overall_score", PyInt(87)>>,
    <<"feedback", PyText("Great job! Your timing is excellent. Focus on hitting the correct notes more consistently.")>>,
    <<"suggestions", PyList(<<
        PyText("Practice scales to improve finger positioning"),
        PyText("Use a metronome to maintain steady tempo"),
        PyText("Focus on the middle section where most errors occurred") >>)>> >>)

RECURSIVE PyGet(_, _)
\* d[key] of a Python dict (given as its sequence of pairs)
PyGet(kvs, key) == IF kvs[1][1] = key THEN kvs[1][2] ELSE PyGet(Tail(kvs), key)

\* analysis_result['overall_score']
OverallScore(result) == PyGet(result.items, "overall_score").n

(***************************************************************************)
(* The audio_submissions table and the requests in progress                *)
(***************************************************************************)
\* an optional column or field: <<>> is NULL / None, <<v>> holds v
NULL == <<>>

\* datetime.utcnow(): the value of a timestamp is not followed
utcnow == "utcnow"

\* the row INSERTed by upload_audio_file (feedback, score, updated_at unset)
NewSubmission(user_id, exercise_id, filename) ==
  [user_id |-> user_id, exercise_id |-> exercise_id, file_path |-> filename,
   status |-> "pending", feedback |-> NULL, score |-> NULL,
   created_at |-> utcnow, updated_at |-> NULL]

\* the filename the upload endpoint builds: "{user}/{exercise}/{uuid}.{ext}"
Filename(user_id, exercise_id) == <<user_id, exercise_id>>

\* the objects of the 'audio-submissions' storage bucket, by file path:
\* upload_audio_file writes the upload to a temporary file only, and no
\* operation of the service stores an object, so the bucket remains as empty
\* as it is when the table is
storage == {}

NoResp == [code |-> 0, detail |-> <<>>, body |-> <<>>]
\* the HTTPException(status_code=500, detail=str(e)) every endpoint raises
HTTP500(e) == [code |-> 500, detail |-> e, body |-> <<>>]
HTTP200(body) == [code |-> 200, detail |-> <<>>, body |-> <<body>>]

\* a request slot: the request's kind and inputs (user, sid, ex), its position
\* (pc), its locals (sub: the submission it read, exc: the exception in
\* flight, ret: the service's return value), the score and feedback stored
\* when the service was entered (pre) and the response sent (resp)
Idle ==
  [kind |-> "idle", pc |-> "idle", sid |-> 0, user |-> "", ex |-> "",
   sub |-> <<>>, pre |-> <<>>, exc |-> <<>>, ret |-> <<>>, resp |-> NoResp]

\* a request of the given kind arrives at a free slot
Arrive(kind, user, sid, ex) ==
  [Idle EXCEPT !.kind = kind, !.user = user, !.sid = sid, !.ex = ex]

\* the slot when the handler has produced its response: the request's inputs
\* and the response remain, the handler's locals are gone
Respond(r, resp) ==
  [Arrive(r.kind, r.user, r.sid, r.ex) EXCEPT !.pc = "done", !.resp = resp]

\* a slot is free when it holds no request
Free(r) == r.pc = "idle"

\* the exception of a store call that fails
StoreError == <<"StoreError">>
\* str() of the HTTPException(404) raised inside an endpoint's try block
NotFound404 == <<"404: Submission not found">>
\* str() of the HTTPException(400) raised inside upload_audio's try block
BadFile400 == <<"400: File must be an audio file">>

\* the columns of a row that the caller of get_submission goes on to read:
\* an endpoint and analyze_audio read user_id at most
Columns(caller, row) ==
  CASE caller \in {"endpoint", "analyze"} -> [user_id |-> row.user_id]
    [] caller = "delete" -> [user_id |-> row.user_id, file_path |-> row.file_path]
    [] caller = "feedback" ->
         [user_id |-> row.user_id, status |-> row.status,
          feedback |-> row.feedback, score |-> row.score,
          created_at |-> row.created_at, updated_at |-> row.updated_at]

\* a lookup that answers an unknown id with a fresh pending row
get_submission_or_default(d, sid, caller) ==
  IF sid \in DOMAIN d THEN <<Columns(caller, d[sid])>>
  ELSE <<Columns(caller, NewSubmission("alice", "ex1", <<>>))>>

\* AudioService.get_submission when the SELECT succeeds: the row as a dict,
\* or None
get_submission(d, sid, caller) ==
  IF sid \in DOMAIN d THEN <<Columns(caller, d[sid])>> ELSE <<>>

\* AudioService.get_submission when the SELECT raises
GetSubmissionError == <<"Failed to get submission">> \o StoreError

\* UPDATE ... SET status='analyzed', feedback, score, updated_at WHERE id
UpdateAnalyzed(d, sid, result) ==
  IF sid \in DOMAIN d
  THEN [d EXCEPT ![sid].status = "analyzed",
                 ![sid].feedback = PyStr(result),
                 ![sid].score = <<OverallScore(result)>>,
                 ![sid].updated_at = <<utcnow>>]
  ELSE d

\* the UPDATE to 'failed' without its WHERE clause
UpdateFailedEverywhere(d, sid) ==
  [i \in DOMAIN d |-> [d[i] EXCEPT !.status = "failed", !.updated_at = <<utcnow>>]]

\* a failed analysis putting the submission back to 'pending'
UpdateFailedToPending(d, sid) ==
  IF sid \in DOMAIN d
  THEN [d EXCEPT ![sid].status = "pending", ![sid].updated_at = <<utcnow>>]
  ELSE d

\* UPDATE ... SET status='failed', updated_at WHERE id
UpdateFailed(d, sid) ==
  IF sid \in DOMAIN d
  THEN [d EXCEPT ![sid].status = "failed", ![sid].updated_at = <<utcnow>>]
  ELSE d

(***************************************************************************)
(* AudioAnalyzer (app/utils/audio_utils.py)                                *)
(***************************************************************************)
\* the note names the analyzer compares
Notes == {"C4", "D4", "E4", "X4"}

RECURSIVE SeqsUpTo(_, _)
\* the sequences over S of length at most n
SeqsUpTo(S, n) ==
  IF n = 0 THEN {<<>>}
  ELSE LET shorter == SeqsUpTo(S, n - 1) IN
       shorter \cup {Append(xs, x) : xs \in shorter, x \in S}

\* the note lists passed as detected_notes and expected_notes
NoteSeqs == SeqsUpTo(Notes, MaxNotes)

\* a Python float that is the quotient n / d, kept exact (the rounding of
\* binary floating point is not followed)
Frac(n, d) == [n |-> n, d |-> d]
\* 0.0, and the int 0 of the `else 0` branches
Zero == Frac(0, 1)

RECURSIVE CountCorrect(_, _, _)
\* the loop `for i, expected in enumerate(expected_notes)` from index i on
\* (indices count from 1 here)
CountCorrect(detected_notes, expected_notes, i) ==
  IF i > Len(expected_notes) THEN 0
  ELSE (IF i <= Len(detected_notes) /\ detected_notes[i] = expected_notes[i]
        THEN 1 ELSE 0)
       + CountCorrect(detected_notes, expected_notes, i + 1)

\* counting an expected note as correct when it was detected at any position
CorrectNotesAnywhere(detected_notes, expected_notes) ==
  Cardinality({i \in 1..Len(expected_notes) :
                 \E j \in 1..Len(detected_notes) :
                   detected_notes[j] = expected_notes[i]})

\* correct_notes after the loop of compare_with_expected
CorrectNotes(detected_notes, expected_notes) ==
  CountCorrect(detected_notes, expected_notes, 1)

\* the ratio left as a fraction of 1, not multiplied by 100
PercentUnscaled(correct_notes, total) ==
  IF total > 0 THEN Frac(correct_notes, total) ELSE Zero

\* (correct_notes / total) * 100 if total > 0 else 0
Percent(correct_notes, total) ==
  IF total > 0 THEN Frac(correct_notes * 100, total) ELSE Zero

\* an empty expected list graded as a perfect match
EmptyExpectedPerfect ==
  [accuracy |-> Frac(100, 1), precision |-> Frac(100, 1), recall |-> Frac(100, 1)]

\* what compare_with_expected returns when expected_notes is empty
EmptyExpected == [accuracy |-> Zero, precision |-> Zero, recall |-> Zero]

\* AudioAnalyzer.compare_with_expected
compare_with_expected(detected_notes, expected_notes) ==
  IF expected_notes = <<>> THEN EmptyExpected
  ELSE LET correct_notes == CorrectNotes(detected_notes, expected_notes)
           total_expected == Len(expected_notes)
           total_detected == Len(detected_notes) IN
       [accuracy |-> Percent(correct_notes, total_expected),
        precision |-> Percent(correct_notes, total_detected),
        recall |-> Percent(correct_notes, total_expected)]

\* the placeholder rhythm and timing scores of analyze_audio_submission
rhythm_score == 85
timing_score == 80

\* the mean rounded to the nearest integer instead of truncated
overall_score_rounded(pitch, rhythm, timing) ==
  (2 * (pitch.n + (rhythm + timing) * pitch.d) + 3 * pitch.d) \div (6 * pitch.d)

\* the sum of the three scores, not divided by three
overall_score_undivided(pitch, rhythm, timing) ==
  (pitch.n + (rhythm + timing) * pitch.d) \div pitch.d

\* int((pitch_score + rhythm_score + timing_score) / 3): int() truncates,
\* and the mean is not negative
overall_score(pitch, rhythm, timing) ==
  (pitch.n + (rhythm + timing) * pitch.d) \div (3 * pitch.d)

\* the dict analyze_audio_submission returns for the notes detect_notes found
\* (tempo and analysis_details, which hold librosa's output as it is, are not
\* followed)
analyze_audio_submission(detected_notes, expected_notes) ==
  LET comparison == compare_with_expected(detected_notes, expected_notes)
      pitch_score == comparison.accuracy IN
  [score |-> overall_score(pitch_score, rhythm_score, timing_score),
   pitch_accuracy |-> pitch_score,
   rhythm_accuracy |-> rhythm_score,
   timing_accuracy |-> timing_score,
   detected_notes |-> detected_notes,
   expected_notes |-> expected_notes]

\* the values a frame of the pitch track takes here, in hundredths of a
\* hertz: a negative value, silence, the centre frequencies of B3, C4, D4, E4,
\* F4 and A4, and two frequencies on either side of the B3/C4 and of the E4/F4
\* boundary
Pitches == {-100, 0, 24694, 25400, 25440, 26163, 29366, 32963, 33900, 33960,
            34923, 44000}

\* the pitch tracks passed to detect_notes
PitchTracks == SeqsUpTo(Pitches, MaxFrames)

\* librosa.hz_to_midi(pitch) = 69 + 12 * log2(pitch / 440) at the sampled
\* frequencies, as a float kept to the ten-thousandth of a semitone
hz_to_midi(pitch) ==
  CASE pitch = 24694 -> Frac(589999, 10000)
    [] pitch = 25400 -> Frac(594879, 10000)
    [] pitch = 25440 -> Frac(595151, 10000)
    [] pitch = 26163 -> Frac(600003, 10000)
    [] pitch = 29366 -> Frac(619997, 10000)
    [] pitch = 32963 -> Frac(640001, 10000)
    [] pitch = 33900 -> Frac(644854, 10000)
    [] pitch = 33960 -> Frac(645160, 10000)
    [] pitch = 34923 -> Frac(650001, 10000)
    [] pitch = 44000 -> Frac(690000, 10000)

\* int(x) in place of int(round(x)): the fraction is cut off
PyTruncate(x) == x.n \div x.d

\* int(round(x)): Python rounds to the nearest integer, a tie to the even one
PyRound(x) ==
  LET q == x.n \div x.d
      r == x.n % x.d IN
  IF 2 * r < x.d THEN q
  ELSE IF 2 * r > x.d THEN q + 1
  ELSE IF q % 2 = 0 THEN q ELSE q + 1

\* the pitch classes of librosa.midi_to_note (sharps written with #)
PitchClasses ==
  <<"C", "C#", "D", "D#", "E", "F", "F#", "G", "G#", "A", "A#", "B">>

\* librosa.midi_to_note(midi): the pitch class and the octave, as a pair
midi_to_note(midi) == <<PitchClasses[(midi % 12) + 1], (midi \div 12) - 1>>

\* the MIDI number detect_notes rounds a frame's frequency to
midi_note(pitch) == PyRound(hz_to_midi(pitch))

\* the centre frequency of a MIDI number, 440 * 2^((midi - 69) / 12), in
\* hundredths of a hertz, for the notes sampled in Pitches
midi_to_hz(midi) ==
  CASE midi = 59 -> 24694
    [] midi = 60 -> 26163
    [] midi = 62 -> 29366
    [] midi = 64 -> 32963
    [] midi = 65 -> 34923
    [] midi = 69 -> 44000

\* the MIDI numbers whose centre frequency is sampled
SampledMidi == {59, 60, 62, 64, 65, 69}

\* frames below middle C taken as silence
ValidPitchFromC4(pitch) == pitch >= 26163

\* `if pitch > 0`
ValidPitch(pitch) == pitch > 0

RECURSIVE DetectFrom(_, _)
\* the loop `for pitch in pitches` of detect_notes from frame i on
DetectFrom(pitches, i) ==
  IF i > Len(pitches) THEN <<>>
  ELSE (IF ValidPitch(pitches[i])
        THEN <<midi_to_note(midi_note(pitches[i]))>> ELSE <<>>)
       \o DetectFrom(pitches, i + 1)

\* AudioAnalyzer.detect_notes
detect_notes(pitches) == DetectFrom(pitches, 1)

\* no call of the analyzer has been made
NoCall == [fn |-> "none", detected |-> <<>>, expected |-> <<>>, out |-> <<>>]

\* upload_content has sent no response yet
NoResult == [status_code |-> 0, detail |-> ""]
\* HTTPException(status_code, detail) raised by upload_content
HTTPError(status_code, detail) == [status_code |-> status_code, detail |-> detail]
\* the ContentResponse upload_content returns
ContentCreated == [status_code |-> 200, detail |-> ""]

\* the content service before any upload
NoContent ==
  [files |-> {}, rows |-> {}, next |-> 0, pc |-> "idle", out |-> NoResult]

Init ==
  /\ db = <<>>
  /\ next_id = 0
  /\ temp_files = {}
  /\ req = [p \in Procs |-> Idle]
  /\ call = NoCall
  /\ content = NoContent

(***************************************************************************)
(* POST /upload                                                            *)
(***************************************************************************)
\* upload_audio: the content type does not start with "audio/":
\* HTTPException(400), which the endpoint's own `except Exception` turns
\* into a 500
UploadRejectType(p, user, ex) ==
  /\ Free(req[p])
  /\ req' = [req EXCEPT ![p] = Respond(Arrive("upload", user, 0, ex),
                                       HTTP500(BadFile400))]
  /\ UNCHANGED <<db, next_id, temp_files, call, content>>

\* upload_audio calls upload_audio_file: NamedTemporaryFile(delete=False),
\* await file.read() returns the content
UploadRead(p, user, ex) ==
  /\ Free(req[p])
  /\ temp_files' = temp_files \cup {p}
  /\ req' = [req EXCEPT ![p] = [Arrive("upload", user, 0, ex) EXCEPT !.pc = "u_read"]]
  /\ UNCHANGED <<db, next_id, call, content>>

\* upload_audio_file as far as its except branch; the endpoint answers 500
UploadError(e) == HTTP500(<<"Failed to upload audio">> \o e)

\* upload_audio_file: NamedTemporaryFile(delete=False), await file.read()
\* raises; except Exception: the temporary file is not unlinked
UploadReadRaise(p, user, ex) ==
  /\ Free(req[p])
  /\ temp_files' = temp_files \cup {p}
  /\ req' = [req EXCEPT ![p] = Respond(Arrive("upload", user, 0, ex),
                                       UploadError(<<"ReadError">>))]
  /\ UNCHANGED <<db, next_id, call, content>>

\* upload_audio_file: uuid4 and INSERT INTO audio_submissions, which succeeds
UploadInsert(p) ==
  /\ req[p].pc = "u_read"
  /\ next_id < MaxIds
  /\ next_id' = next_id + 1
  /\ db' = [i \in DOMAIN db \cup {next_id'} |->
              IF i = next_id'
              THEN NewSubmission(req[p].user, req[p].ex,
                                 Filename(req[p].user, req[p].ex))
              ELSE db[i]]
  /\ req' = [req EXCEPT ![p].pc = "u_inserted", ![p].sid = next_id']
  /\ UNCHANGED <<temp_files, call, content>>

\* upload_audio_file: the INSERT raises; except Exception: the temporary
\* file is not unlinked
UploadInsertRaise(p) ==
  /\ req[p].pc = "u_read"
  /\ req' = [req EXCEPT ![p] = Respond(req[p], UploadError(StoreError))]
  /\ UNCHANGED <<db, next_id, temp_files, call, content>>

\* upload_audio_file reporting the stored status instead of 'uploaded'
UploadResultPending(submission_id, filename) ==
  [submission_id |-> submission_id, filename |-> filename, status |-> "pending"]

\* the dict upload_audio_file returns
UploadResult(submission_id, filename) ==
  [submission_id |-> submission_id, filename |-> filename, status |-> "uploaded"]

\* the dict upload_audio returns
UploadResponse(result) ==
  [success |-> TRUE, submission_id |-> result.submission_id,
   message |-> "Audio uploaded successfully"]

\* upload_audio_file: os.unlink(temp_path) and return; upload_audio: respond
UploadReturn(p) ==
  /\ req[p].pc = "u_inserted"
  /\ temp_files' = temp_files \ {p}
  /\ LET result == UploadResult(req[p].sid, Filename(req[p].user, req[p].ex)) IN
     req' = [req EXCEPT ![p] = [Respond(req[p], HTTP200(UploadResponse(result)))
                                  EXCEPT !.ret = <<result>>]]
  /\ UNCHANGED <<db, next_id, call, content>>

(***************************************************************************)
(* The ownership check shared by analyze, feedback and delete              *)
(***************************************************************************)
ByIdKinds == {"analyze", "feedback", "delete"}

\* the check without the comparison of the owner: `not submission`
NotOwnedMissingOnly(submission, user) == submission = <<>>

\* the endpoint's check `not submission or submission['user_id'] != user`
NotOwned(submission, user) ==
  IF submission = <<>> THEN TRUE ELSE submission[1].user_id # user

\* endpoint: submission = await audio_service.get_submission(...) returns a
\* row of the requesting user
EpGetSubmission(p, kind, user, sid) ==
  /\ Free(req[p])
  /\ ~NotOwned(get_submission(db, sid, "endpoint"), user)
  /\ req' = [req EXCEPT ![p] = [Arrive(kind, user, sid, "") EXCEPT
               !.pc = "ep_got", !.sub = get_submission(db, sid, "endpoint")]]
  /\ UNCHANGED <<db, next_id, temp_files, call, content>>

\* endpoint: get_submission raises; except Exception -> 500
EpGetFailed(p, kind, user, sid) ==
  /\ Free(req[p])
  /\ req' = [req EXCEPT ![p] = Respond(Arrive(kind, user, sid, ""),
                                       HTTP500(GetSubmissionError))]
  /\ UNCHANGED <<db, next_id, temp_files, call, content>>

\* the status code with which an endpoint answers an HTTPException raised in
\* its try block: `except Exception` catches it and raises
\* HTTPException(status_code=500, detail=str(e))
EndpointErrorCode(status_code) == 500

\* endpoint: get_submission returns None or a row of another user:
\* raise HTTPException(404) inside the try block
EpNotFound(p, kind, user, sid) ==
  /\ Free(req[p])
  /\ NotOwned(get_submission(db, sid, "endpoint"), user)
  /\ req' = [req EXCEPT ![p] =
               Respond(Arrive(kind, user, sid, ""),
                       [code |-> EndpointErrorCode(404), detail |-> NotFound404,
                        body |-> <<>>])]
  /\ UNCHANGED <<db, next_id, temp_files, call, content>>

\* the endpoint has passed its check and calls the service
EpPassed(r, kind) == r.kind = kind /\ r.pc = "ep_got"

\* score and feedback of a submission as stored (NULL when there is no row)
Stored(d, sid) ==
  IF sid \in DOMAIN d
  THEN <<[score |-> d[sid].score, feedback |-> d[sid].feedback]>>
  ELSE <<>>

(***************************************************************************)
(* POST /analyze/{submission_id}                                           *)
(***************************************************************************)
\* analyze_audio (service) is entered: await self.get_submission(...) returns
AnalyzeGetSubmission(p) ==
  /\ EpPassed(req[p], "analyze")
  /\ req' = [req EXCEPT ![p].pc = "a_svc_got",
                        ![p].pre = Stored(db, req[p].sid),
                        ![p].sub = get_submission(db, req[p].sid, "analyze")]
  /\ UNCHANGED <<db, next_id, temp_files, call, content>>

\* analyze_audio: the mock analysis, then the UPDATE to 'analyzed' succeeds
AnalyzeUpdate(p) ==
  /\ req[p].pc = "a_svc_got" /\ req[p].sub # <<>>
  /\ db' = UpdateAnalyzed(db, req[p].sid, analysis_result)
  /\ req' = [req EXCEPT ![p].pc = "a_updated", ![p].pre = <<>>,
                        ![p].ret = <<analysis_result>>]
  /\ UNCHANGED <<next_id, temp_files, call, content>>

\* analyze_audio returns analysis_result; the endpoint responds
AnalyzeReturn(p) ==
  /\ req[p].pc = "a_updated"
  /\ req' = [req EXCEPT ![p] =
               Respond(req[p], HTTP200([success |-> TRUE,
                                        analysis |-> req[p].ret[1],
                                        message |-> "Audio analysis completed"]))]
  /\ UNCHANGED <<db, next_id, temp_files, call, content>>

\* the exceptions that can take analyze_audio into its except branch from
\* where the request is: the lookup raises, the lookup found nothing, or the
\* UPDATE to 'analyzed' raises
AnalyzeCaught(r) ==
  IF EpPassed(r, "analyze") THEN {GetSubmissionError}
  ELSE IF r.pc = "a_svc_got"
       THEN (IF r.sub = <<>> THEN {<<"Submission not found">>} ELSE {StoreError})
  ELSE {}

\* score and feedback stored when analyze_audio was entered
AnalyzePre(r, d) == IF EpPassed(r, "analyze") THEN Stored(d, r.sid) ELSE r.pre

\* analyze_audio, except branch: the UPDATE to 'failed' succeeds, then
\* raise Exception("Failed to analyze audio: ...")
AnalyzeMarkFailed(p) ==
  /\ \E e \in AnalyzeCaught(req[p]) :
       req' = [req EXCEPT ![p].pc = "a_raised",
                          ![p].pre = AnalyzePre(req[p], db),
                          ![p].exc = <<"Failed to analyze audio">> \o e]
  /\ db' = UpdateFailed(db, req[p].sid)
  /\ UNCHANGED <<next_id, temp_files, call, content>>

\* analyze_audio, except branch: the UPDATE to 'failed' itself raises; that
\* exception leaves the handler in place of the normalized one
AnalyzeMarkFailedRaise(p) ==
  /\ AnalyzeCaught(req[p]) # {}
  /\ req' = [req EXCEPT ![p].pc = "a_raised",
                        ![p].pre = AnalyzePre(req[p], db),
                        ![p].exc = StoreError]
  /\ UNCHANGED <<db, next_id, temp_files, call, content>>

\* the endpoint catches what analyze_audio raised: 500 with str(e)
AnalyzeRaise(p) ==
  /\ req[p].pc = "a_raised"
  /\ req' = [req EXCEPT ![p] = Respond(req[p], HTTP500(req[p].exc))]
  /\ UNCHANGED <<db, next_id, temp_files, call, content>>

(***************************************************************************)
(* GET /feedback/{submission_id}                                           *)
(***************************************************************************)
\* get_detailed_feedback handing out the stored score of a submission that
\* is not analyzed
FeedbackIncompleteWithScore(submission) ==
  [status |-> submission.status, score |-> submission.score,
   message |-> "Analysis not yet complete"]

\* what get_detailed_feedback returns for a submission that is not analyzed
FeedbackIncomplete(submission) ==
  [status |-> submission.status, message |-> "Analysis not yet complete"]

\* the branch `submission['status'] != 'analyzed'` of get_detailed_feedback
NotYetAnalyzed(submission) == submission.status # "analyzed"

\* get_detailed_feedback after its lookup returned `sub`: the dict it returns
\* (ret) or the exception it raises (exc)
get_detailed_feedback(sub) ==
  IF sub = <<>>
  THEN [exc |-> <<"Failed to get feedback", "Submission not found">>, ret |-> <<>>]
  ELSE IF NotYetAnalyzed(sub[1])
  THEN [exc |-> <<>>, ret |-> <<FeedbackIncomplete(sub[1])>>]
  ELSE LET feedback == IF sub[1].feedback # <<>>
                       THEN JsonLoads(sub[1].feedback)
                       ELSE ParseOk(PyDict(<<>>), <<>>)
       IN IF ~feedback.ok
          THEN [exc |-> <<"Failed to get feedback", "JSONDecodeError">>, ret |-> <<>>]
          ELSE [exc |-> <<>>,
                ret |-> <<[status |-> "analyzed", score |-> sub[1].score,
                           analysis |-> feedback.val,
                           created_at |-> sub[1].created_at,
                           updated_at |-> sub[1].updated_at]>>]

\* get_detailed_feedback: the lookup returns and the function returns a dict;
\* the endpoint responds
FeedbackReturn(p) ==
  /\ EpPassed(req[p], "feedback")
  /\ LET sub == get_submission(db, req[p].sid, "feedback")
         r == get_detailed_feedback(sub) IN
     /\ r.exc = <<>>
     /\ req' = [req EXCEPT ![p] =
                  Respond(req[p], HTTP200([success |-> TRUE, feedback |-> r.ret[1]]))]
  /\ UNCHANGED <<db, next_id, temp_files, call, content>>

\* get_detailed_feedback: the lookup returns and the function raises; the
\* endpoint answers 500
FeedbackRaise(p) ==
  /\ EpPassed(req[p], "feedback")
  /\ LET sub == get_submission(db, req[p].sid, "feedback")
         r == get_detailed_feedback(sub) IN
     /\ r.exc # <<>>
     /\ req' = [req EXCEPT ![p] = Respond(req[p], HTTP500(r.exc))]
  /\ UNCHANGED <<db, next_id, temp_files, call, content>>

\* get_detailed_feedback: the lookup raises; the endpoint answers 500
FeedbackGetRaise(p) ==
  /\ EpPassed(req[p], "feedback")
  /\ req' = [req EXCEPT ![p] =
               Respond(req[p], HTTP500(<<"Failed to get feedback">> \o GetSubmissionError))]
  /\ UNCHANGED <<db, next_id, temp_files, call, content>>

(***************************************************************************)
(* DELETE /submissions/{submission_id}                                     *)
(***************************************************************************)
\* delete_submission after its lookup returned `sub`.  The module never binds
\* the name `supabase` (it imports only get_db and settings), so evaluating
\* `supabase.storage` raises NameError whenever file_path is set; the DELETE
\* is reached only for a row without file_path.  (`storage.from(...)` is
\* read as the client's method `from_`.)
delete_submission(sub) ==
  IF sub = <<>>
  THEN [exc |-> <<"Failed to delete submission", "Submission not found">>,
        delete |-> FALSE]
  ELSE IF sub[1].file_path # <<>>
  THEN [exc |-> <<"Failed to delete submission", "NameError">>, delete |-> FALSE]
  ELSE [exc |-> <<>>, delete |-> TRUE]

\* DELETE FROM audio_submissions WHERE id
DeleteRow(d, sid) == [i \in DOMAIN d \ {sid} |-> d[i]]

\* delete_submission: the lookup returns and the function runs to its end;
\* the endpoint responds
DeleteFinish(p) ==
  /\ EpPassed(req[p], "delete")
  /\ LET r == delete_submission(get_submission(db, req[p].sid, "delete")) IN
     /\ db' = IF r.delete THEN DeleteRow(db, req[p].sid) ELSE db
     /\ req' = [req EXCEPT ![p] =
                  Respond(req[p],
                          IF r.exc # <<>> THEN HTTP500(r.exc)
                          ELSE HTTP200([success |-> TRUE,
                                 message |-> "Submission deleted successfully"]))]
  /\ UNCHANGED <<next_id, temp_files, call, content>>

\* delete_submission: the lookup raises; the endpoint answers 500
DeleteGetRaise(p) ==
  /\ EpPassed(req[p], "delete")
  /\ req' = [req EXCEPT ![p] =
               Respond(req[p], HTTP500(<<"Failed to delete submission">> \o GetSubmissionError))]
  /\ UNCHANGED <<db, next_id, temp_files, call, content>>

(***************************************************************************)
(* The system                                                              *)
(***************************************************************************)
\* the response has been sent and the slot is free again; a temporary file
\* the request left behind is followed no further
Finish(p) ==
  /\ req[p].pc = "done"
  /\ req' = [req EXCEPT ![p] = Idle]
  /\ temp_files' = temp_files \ {p}
  /\ UNCHANGED <<db, next_id, call, content>>

Next ==
  \E p \in Procs :
    \/ \E u \in Uploaders, e \in Exercises : UploadRejectType(p, u, e)
    \/ \E u \in Uploaders, e \in Exercises : UploadRead(p, u, e)
    \/ \E u \in Uploaders, e \in Exercises : UploadReadRaise(p, u, e)
    \/ UploadInsert(p)
    \/ UploadInsertRaise(p)
    \/ UploadReturn(p)
    \/ \E k \in ByIdKinds, u \in Users, i \in Ids : EpGetSubmission(p, k, u, i)
    \/ \E k \in ByIdKinds, u \in Users, i \in Ids : EpGetFailed(p, k, u, i)
    \/ \E k \in ByIdKinds, u \in Users, i \in Ids : EpNotFound(p, k, u, i)
    \/ AnalyzeGetSubmission(p)
    \/ AnalyzeUpdate(p)
    \/ AnalyzeReturn(p)
    \/ AnalyzeMarkFailed(p)
    \/ AnalyzeMarkFailedRaise(p)
    \/ AnalyzeRaise(p)
    \/ FeedbackReturn(p)
    \/ FeedbackRaise(p)
    \/ FeedbackGetRaise(p)
    \/ DeleteFinish(p)
    \/ DeleteGetRaise(p)
    \/ Finish(p)

Spec == Init /\ [][Next]_vars

(***************************************************************************)
(* Calls of the analyzer.  The analyzer keeps no state between calls, so   *)
(* each call is followed from the state in which none has been made.       *)
(***************************************************************************)
\* compare_with_expected is called with some detected and expected notes
\* and returns
CompareWithExpected ==
  /\ call = NoCall
  /\ \E detected_notes \in NoteSeqs, expected_notes \in NoteSeqs :
       call' = [fn |-> "compare_with_expected", detected |-> detected_notes,
                expected |-> expected_notes,
                out |-> <<compare_with_expected(detected_notes, expected_notes)>>]
  /\ UNCHANGED <<db, next_id, temp_files, req, content>>

\* analyze_audio_submission is called, librosa loads the file and finds the
\* notes, and the call returns
AnalyzeAudioSubmission ==
  /\ call = NoCall
  /\ \E detected_notes \in NoteSeqs, expected_notes \in NoteSeqs :
       call' = [fn |-> "analyze_audio_submission", detected |-> detected_notes,
                expected |-> expected_notes,
                out |-> <<analyze_audio_submission(detected_notes, expected_notes)>>]
  /\ UNCHANGED <<db, next_id, temp_files, req, content>>

\* analyze_audio_submission is called and loading or feature extraction
\* raises: the exception is logged and raised again
AnalyzeAudioSubmissionRaise ==
  /\ call = NoCall
  /\ \E expected_notes \in NoteSeqs :
       call' = [fn |-> "analyze_audio_submission", detected |-> <<>>,
                expected |-> expected_notes, out |-> <<>>]
  /\ UNCHANGED <<db, next_id, temp_files, req, content>>

\* detect_notes is called with a pitch track and returns
DetectNotes ==
  /\ call = NoCall
  /\ \E pitches \in PitchTracks :
       call' = [fn |-> "detect_notes", pitches |-> pitches,
                out |-> <<detect_notes(pitches)>>]
  /\ UNCHANGED <<db, next_id, temp_files, req, content>>

AnalyzerNext ==
  \/ DetectNotes
  \/ CompareWithExpected
  \/ AnalyzeAudioSubmission
  \/ AnalyzeAudioSubmissionRaise

AnalyzerSpec == Init /\ [][AnalyzerNext]_vars

(***************************************************************************)
(* AuthMiddleware (app/core/middleware.py).  A string is the sequence of   *)
(* its characters; dispatch keeps no state between requests, so each       *)
(* request is followed from the state in which none has been handled.      *)
(***************************************************************************)
\* AuthMiddleware.PUBLIC_ROUTES
PUBLIC_ROUTES ==
  <<
     \* /
     <<"/">>,
     \* /health
     <<"/", "h", "e", "a", "l", "t", "h">>,
     \* /docs
     <<"/", "d", "o", "c", "s">>,
     \* /redoc
     <<"/", "r", "e", "d", "o", "c">>,
     \* /openapi.json
     <<"/", "o", "p", "e", "n", "a", "p", "i", ".", "j", "s", "o", "n">>,
     \* /api/v1/auth/login
     <<"/", "a", "p", "i", "/", "v", "1", "/", "a", "u", "t", "h", "/",
       "l", "o", "g", "i", "n">>,
     \* /api/v1/auth/register
     <<"/", "a", "p", "i", "/", "v", "1", "/", "a", "u", "t", "h", "/",
       "r", "e", "g", "i", "s", "t", "e", "r">>,
     \* /api/v1/auth/refresh
     <<"/", "a", "p", "i", "/", "v", "1", "/", "a", "u", "t", "h", "/",
       "r", "e", "f", "r", "e", "s", "h">>,
     \* /api/v1/auth/forgot-password
     <<"/", "a", "p", "i", "/", "v", "1", "/", "a", "u", "t", "h", "/",
       "f", "o", "r", "g", "o", "t", "-", "p", "a", "s", "s", "w", "o", "r",
       "d">>,
     \* /api/v1/auth/reset-password
     <<"/", "a", "p", "i", "/", "v", "1", "/", "a", "u", "t", "h", "/",
       "r", "e", "s", "e", "t", "-", "p", "a", "s", "s", "w", "o", "r",
       "d">>,
     \* /api/v1/auth/verify-email
     <<"/", "a", "p", "i", "/", "v", "1", "/", "a", "u", "t", "h", "/",
       "v", "e", "r", "i", "f", "y", "-", "e", "m", "a", "i", "l">>
  >>

\* the paths of the other requests followed here
ProtectedPaths ==
  {
   \* /api/v1/audio/analyze/1
   <<"/", "a", "p", "i", "/", "v", "1", "/", "a", "u", "d", "i", "o", "/",
     "a", "n", "a", "l", "y", "z", "e", "/", "1">>,
   \* /api/v1/audio/upload
   <<"/", "a", "p", "i", "/", "v", "1", "/", "a", "u", "d", "i", "o", "/",
     "u", "p", "l", "o", "a", "d">>,
   \* /api/v1/audio/submissions/1
   <<"/", "a", "p", "i", "/", "v", "1", "/", "a", "u", "d", "i", "o", "/",
     "s", "u", "b", "m", "i", "s", "s", "i", "o", "n", "s", "/", "1">>,
   \* /api/v1/users/me
   <<"/", "a", "p", "i", "/", "v", "1", "/", "u", "s", "e", "r", "s", "/",
     "m", "e">>,
   \* /api/v1/auth/logout
   <<"/", "a", "p", "i", "/", "v", "1", "/", "a", "u", "t", "h", "/", "l",
     "o", "g", "o", "u", "t">>,
   \* /healthz
   <<"/", "h", "e", "a", "l", "t", "h", "z">>
  }

\* request.url.path of the requests followed
RequestPaths == {PUBLIC_ROUTES[k] : k \in DOMAIN PUBLIC_ROUTES} \cup ProtectedPaths

\* request.headers.get("Authorization") of the requests followed: None, or
\* the header as the words authorization.split() yields
NoHeader == <<"None">>
AuthorizationHeaders ==
  {NoHeader,
   <<"split", <<"Bearer", "good">> >>, <<"split", <<"bearer", "good">> >>,
   <<"split", <<"Bearer", "expired">> >>, <<"split", <<"Basic", "good">> >>,
   <<"split", <<"Bearer">> >>, <<"split", <<"Bearer", "good", "extra">> >>}

\* str.startswith
startswith(text, prefix) ==
  Len(prefix) <= Len(text) /\ SubSeq(text, 1, Len(prefix)) = prefix

\* str.lower() of the schemes followed
lower(scheme) ==
  CASE scheme = "Bearer" -> "bearer"
    [] scheme = "Basic" -> "basic"
    [] OTHER -> scheme

\* security_manager.verify_token: the payload of a token jwt.decode accepts,
\* None for any other
verify_token(token) ==
  IF token = "good" THEN <<[sub |-> "alice"]>> ELSE <<>>

\* JSONResponse(status_code=401, content={"detail": detail})
Unauthorized(detail) ==
  [status_code |-> 401, detail |-> detail, handled |-> FALSE, user_id |-> <<>>]

\* `await call_next(request)`: the request reaches its handler, with
\* request.state.user_id when dispatch has set it
CallNext(user_id) ==
  [status_code |-> 200, detail |-> "", handled |-> TRUE, user_id |-> user_id]

\* the try block of dispatch: the payload of the token, or <<>> when the
\* block raises (the header is not two words, the scheme is not bearer, or
\* the token is not verified)
Credentials(authorization) ==
  LET words == authorization[2] IN
  IF Len(words) # 2 THEN <<>>
  ELSE IF lower(words[1]) # "bearer" THEN <<>>
  ELSE verify_token(words[2])

\* AuthMiddleware.dispatch
dispatch(path, authorization) ==
  IF \E k \in DOMAIN PUBLIC_ROUTES : startswith(path, PUBLIC_ROUTES[k])
  THEN CallNext(<<>>)
  ELSE IF authorization = NoHeader
  THEN Unauthorized("Authorization header required")
  ELSE IF Credentials(authorization) = <<>>
  THEN Unauthorized("Invalid authentication credentials")
  ELSE CallNext(<<Credentials(authorization)[1].sub>>)

\* a request passes through the middleware
Dispatch ==
  /\ call = NoCall
  /\ \E path \in RequestPaths, authorization \in AuthorizationHeaders :
       call' = [fn |-> "dispatch", path |-> path,
                authorization |-> authorization,
                out |-> <<dispatch(path, authorization)>>]
  /\ UNCHANGED <<db, next_id, temp_files, req, content>>

MiddlewareNext == Dispatch

MiddlewareSpec == Init /\ [][MiddlewareNext]_vars

(***************************************************************************)
(* ContentService.upload_content (app/services/content_service.py) with    *)
(* save_uploaded_file and delete_file (app/utils/file_utils.py).  A file   *)
(* and the row made for it are named by the number of the call that wrote  *)
(* them (the file name is a uuid4).  `await file.read()` is the only       *)
(* scheduling point of a call; the insert is a synchronous call.           *)
(***************************************************************************)
\* delete_file(file_path) when os.remove succeeds
delete_file(files, file_path) == files \ {file_path}

\* save_uploaded_file: validate_audio_file returns False; HTTPException(400)
\* passes through both `except HTTPException: raise`
ContentInvalid ==
  /\ content.pc = "idle" /\ content.next < MaxUploads
  /\ content' = [content EXCEPT !.next = @ + 1,
                   !.out = HTTPError(400, "Invalid file type or size")]
  /\ UNCHANGED <<db, next_id, temp_files, req, call>>

\* save_uploaded_file: os.makedirs or open raises; except Exception -> 500
ContentOpenRaise ==
  /\ content.pc = "idle" /\ content.next < MaxUploads
  /\ content' = [content EXCEPT !.next = @ + 1,
                   !.out = HTTPError(500, "Error saving file")]
  /\ UNCHANGED <<db, next_id, temp_files, req, call>>

\* save_uploaded_file: the file is valid, open(file_path, "wb") creates it,
\* and the call awaits file.read()
ContentOpen ==
  /\ content.pc = "idle" /\ content.next < MaxUploads
  /\ content' = [content EXCEPT !.next = @ + 1, !.pc = "reading",
                   !.files = @ \cup {content.next + 1}, !.out = NoResult]
  /\ UNCHANGED <<db, next_id, temp_files, req, call>>

\* save_uploaded_file: file.read() or buffer.write raises; the `with` closes
\* the file, except Exception -> 500, which upload_content raises again
ContentReadRaise ==
  /\ content.pc = "reading"
  /\ content' = [content EXCEPT !.pc = "idle",
                   !.out = HTTPError(500, "Error saving file")]
  /\ UNCHANGED <<db, next_id, temp_files, req, call>>

\* the file is written, the insert returns the new row, and upload_content
\* returns the ContentResponse
ContentInsert ==
  /\ content.pc = "reading"
  /\ content' = [content EXCEPT !.pc = "idle", !.rows = @ \cup {content.next},
                   !.out = ContentCreated]
  /\ UNCHANGED <<db, next_id, temp_files, req, call>>

\* the file is written and the insert returns no row: delete_file removes
\* the file, HTTPException(400)
ContentInsertNoData ==
  /\ content.pc = "reading"
  /\ content' = [content EXCEPT !.pc = "idle",
                   !.files = delete_file(@, content.next),
                   !.out = HTTPError(400, "Failed to create content record")]
  /\ UNCHANGED <<db, next_id, temp_files, req, call>>

\* the file is written and the insert returns no row: os.remove raises in
\* delete_file, which logs it and returns False; HTTPException(400)
ContentInsertNoDataKept ==
  /\ content.pc = "reading"
  /\ content' = [content EXCEPT !.pc = "idle",
                   !.out = HTTPError(400, "Failed to create content record")]
  /\ UNCHANGED <<db, next_id, temp_files, req, call>>

\* the file is written and the insert raises: except Exception -> 500
ContentInsertRaise ==
  /\ content.pc = "reading"
  /\ content' = [content EXCEPT !.pc = "idle",
                   !.out = HTTPError(500, "Error uploading content")]
  /\ UNCHANGED <<db, next_id, temp_files, req, call>>

ContentNext ==
  \/ ContentInvalid
  \/ ContentOpenRaise
  \/ ContentOpen
  \/ ContentReadRaise
  \/ ContentInsert
  \/ ContentInsertNoData
  \/ ContentInsertNoDataKept
  \/ ContentInsertRaise

ContentSpec == Init /\ [][ContentNext]_vars

TypeOK ==
  /\ next_id \in 0..MaxIds
  /\ temp_files \subseteq Procs
  /\ DOMAIN db = 1..next_id
  /\ \A i \in DOMAIN db : db[i].status \in {"pending", "analyzing", "analyzed", "failed"}

(***************************************************************************)
(* Properties of the analysis lifecycle                                    *)
(***************************************************************************)
\* the positions at which a request is inside AudioService.analyze_audio
InAnalysis == {"a_svc_got", "a_updated", "a_raised"}

\* request p is an analysis in flight on submission i
Analyzing(p, i) ==
  req[p].kind = "analyze" /\ req[p].pc \in InAnalysis /\ req[p].sid = i

\* C1: for every submission id at most one analysis is in flight at any
\* time: no two requests are inside analyze_audio on the same id.
C1_OneAnalysisInFlight ==
  \A i \in Ids : \A p, q \in Procs : Analyzing(p, i) /\ Analyzing(q, i) => p = q

\* C2: no step takes a submission from `pending` directly to `analyzed` or
\* `failed`: the stored status passes through `analyzing` first.
C2_ThroughAnalyzing ==
  [][\A i \in DOMAIN db \cap DOMAIN db' :
       db[i].status = "pending" => db'[i].status \notin {"analyzed", "failed"}]_vars

\* request p takes the step in which analyze_audio returns its result
AnalyzeSucceeds(p) == req[p].pc = "a_updated" /\ req'[p].pc = "done"

\* request p takes the step in which analyze_audio's exception reaches the
\* endpoint
AnalyzeFails(p) == req[p].pc = "a_raised" /\ req'[p].pc = "done"

\* C3: when an analyze call returns successfully, the stored submission has
\* status `analyzed`, an integer score in 0..100 equal to the overall score of
\* the returned result, and a feedback holding that result.
C3_AnalyzedAfterSuccess ==
  [][\A p \in Procs :
       AnalyzeSucceeds(p) =>
         LET row == db'[req[p].sid]
             result == req'[p].resp.body[1].analysis IN
         /\ row.status = "analyzed"
         /\ row.score # NULL
         /\ row.score[1] \in 0..100
         /\ row.score[1] = OverallScore(result)
         /\ row.feedback = PyStr(result)]_vars

\* C4: when an analyze call on an existing submission fails, the stored score
\* and feedback are what they were when the call started.
C4_FailureKeepsResult ==
  [][\A p \in Procs :
       AnalyzeFails(p) /\ req[p].sid \in DOMAIN db' =>
         Stored(db', req[p].sid) = req[p].pre]_vars

\* C5: when an analyze call on an existing submission ends with an error,
\* whichever step failed, the stored status of the submission is `failed`.
C5_FailedAfterError ==
  [][\A p \in Procs :
       AnalyzeFails(p) /\ req[p].sid \in DOMAIN db' =>
         db'[req[p].sid].status = "failed"]_vars

\* C6: every exception analyze_audio raises to its caller is the normalized
\* "Failed to analyze audio: ..." error.
C6_NormalizedError ==
  \A p \in Procs :
    req[p].pc = "a_raised" => Head(req[p].exc) = "Failed to analyze audio"

\* request p is answered in the step in which it arrives, its lookup having
\* returned
AnsweredOnLookup(p) ==
  /\ Free(req[p])
  /\ req'[p].pc = "done"
  /\ req'[p].kind \in ByIdKinds
  /\ req'[p].resp.detail # GetSubmissionError

\* C7: an analyze, feedback or delete request for an id that does not exist
\* or that belongs to another user is answered 404.
C7_NotFoundIs404 ==
  [][\A p \in Procs :
       /\ AnsweredOnLookup(p)
       /\ NotOwned(get_submission(db, req'[p].sid, "endpoint"), req'[p].user)
       => req'[p].resp.code = 404]_vars

\* request p takes the step in which get_detailed_feedback reads the stored
\* submission with one of the given statuses and the endpoint answers
FeedbackRead(p, statuses) ==
  /\ EpPassed(req[p], "feedback")
  /\ req'[p].pc = "done"
  /\ req'[p].resp.detail # <<"Failed to get feedback">> \o GetSubmissionError
  /\ req[p].sid \in DOMAIN db
  /\ db[req[p].sid].status \in statuses

\* C8: feedback retrieval for an `analyzed` submission returns the stored
\* score and an analysis payload equal to the result that analyze_audio
\* produced and persisted.
C8_FeedbackRoundTrip ==
  [][\A p \in Procs :
       FeedbackRead(p, {"analyzed"}) =>
         /\ req'[p].resp.code = 200
         /\ req'[p].resp.body[1].feedback.score = db[req[p].sid].score
         /\ req'[p].resp.body[1].feedback.analysis = analysis_result]_vars

\* C9: feedback retrieval for a submission whose status is `pending`,
\* `analyzing` or `failed` returns exactly that status and the message
\* "Analysis not yet complete": no score and no analysis payload, whatever is
\* stored.
C9_FeedbackNotYetComplete ==
  [][\A p \in Procs :
       FeedbackRead(p, {"pending", "analyzing", "failed"}) =>
         req'[p].resp =
           HTTP200([success |-> TRUE,
                    feedback |-> [status |-> db[req[p].sid].status,
                                  message |-> "Analysis not yet complete"]])]_vars

\* C9, its case: a `failed` submission that still stores the score of an
\* earlier successful analysis has been answered "not yet complete".
C9_Witness ==
  \E p \in Procs :
    /\ req[p].kind = "feedback" /\ req[p].pc = "done" /\ req[p].resp.code = 200
    /\ req[p].resp.body[1].feedback.status = "failed"
    /\ db[req[p].sid].status = "failed"
    /\ db[req[p].sid].score # NULL

\* request p takes the step in which its INSERT is applied
UploadInserts(p) == req[p].pc = "u_read" /\ req'[p].pc = "u_inserted"

\* request p takes the step in which upload_audio_file returns and the
\* endpoint answers
UploadReturns(p) == req[p].pc = "u_inserted" /\ req'[p].pc = "done"

\* the INSERT of request p creates exactly one record, under an id not in use,
\* owned by the uploading user for the given exercise, `pending`, without
\* score or feedback, and leaves every other record as it was
CreatesOnePending(p) ==
  LET id == req'[p].sid IN
  /\ id \notin DOMAIN db
  /\ DOMAIN db' = DOMAIN db \cup {id}
  /\ \A i \in DOMAIN db : db'[i] = db[i]
  /\ db'[id].user_id = req[p].user
  /\ db'[id].exercise_id = req[p].ex
  /\ db'[id].status = "pending"
  /\ db'[id].score = NULL
  /\ db'[id].feedback = NULL

\* C10 as stated: an upload creates exactly one new `pending` record with a
\* fresh id for the user and exercise, and the status reported to the caller
\* for the new submission is `pending`.
C10_ReportsPending ==
  [][\A p \in Procs :
       /\ UploadInserts(p) => CreatesOnePending(p)
       /\ UploadReturns(p) =>
            /\ db' = db
            /\ req'[p].ret[1].submission_id = req[p].sid
            /\ req'[p].ret[1].status = "pending"]_vars

\* C10 as the code has it: an upload creates exactly one new `pending` record
\* with a fresh id for the user and exercise; upload_audio_file reports the
\* new id with status `uploaded`, and the endpoint's response carries the new
\* id and no status.
C10_ReportsUploaded ==
  [][\A p \in Procs :
       /\ UploadInserts(p) => CreatesOnePending(p)
       /\ UploadReturns(p) =>
            /\ db' = db
            /\ req'[p].ret[1].submission_id = req[p].sid
            /\ req'[p].ret[1].status = "uploaded"
            /\ req'[p].resp =
                 HTTP200([success |-> TRUE, submission_id |-> req[p].sid,
                          message |-> "Audio uploaded successfully"])]_vars

\* C10, its case: a second upload has been answered while the record of the
\* first is stored.
C10_Witness ==
  \E p \in Procs :
    /\ req[p].kind = "upload" /\ req[p].pc = "done" /\ req[p].resp.code = 200
    /\ req[p].sid > 1
    /\ req[p].sid \in DOMAIN db
    /\ req[p].ret[1].status = "uploaded"

\* request p takes the step in which analyze_audio starts on its submission
AnalysisStarts(p) == EpPassed(req[p], "analyze") /\ req'[p].pc = "a_svc_got"

\* C11: an analyze call on a submission whose status is `analyzed` or
\* `failed` is accepted and takes the stored status back to `analyzing` when
\* the new analysis starts.
C11_ReentersAnalyzing ==
  [][\A p \in Procs :
       /\ AnalysisStarts(p)
       /\ req[p].sid \in DOMAIN db
       /\ db[req[p].sid].status \in {"analyzed", "failed"}
       => db'[req[p].sid].status = "analyzing"]_vars

\* request p takes the step in which delete_submission, having read the
\* submission, runs to its end and the endpoint answers
DeleteEnds(p) ==
  /\ EpPassed(req[p], "delete")
  /\ req'[p].pc = "done"
  /\ req'[p].resp.detail # <<"Failed to delete submission">> \o GetSubmissionError
  /\ req[p].sid \in DOMAIN db

\* C12: a delete call of the owner succeeds for a submission in any status,
\* and when it has returned the record of the submission is gone.
C12_DeleteRemovesRecord ==
  [][\A p \in Procs :
       DeleteEnds(p) =>
         /\ req'[p].resp.code = 200
         /\ req[p].sid \notin DOMAIN db']_vars

\* C13: no temporary file outlives the upload call that created it: when the
\* call has ended, with a result or with an error, its file is gone.
C13_TempFileRemoved ==
  \A p \in Procs :
    req[p].kind = "upload" /\ req[p].pc = "done" => p \notin temp_files

(***************************************************************************)
(* Properties of the analyzer                                              *)
(***************************************************************************)
\* compare_with_expected has been called and has returned
Compared == call.fn = "compare_with_expected" /\ call.out # <<>>

\* the positions at which the detected note equals the expected one
Hits(detected, expected) ==
  {i \in 1..Len(expected) : i <= Len(detected) /\ detected[i] = expected[i]}

\* the fraction f is the quotient n / d
IsQuotient(f, n, d) == f.d > 0 /\ d > 0 /\ f.n * d = n * f.d

\* C14: for every detected and every non-empty expected sequence,
\* compare_with_expected returns accuracy = recall = hits / len(expected) * 100
\* and precision = hits / len(detected) * 100 (0 when nothing was detected),
\* hits being the number of positions i below len(detected) with
\* detected[i] = expected[i].
C14_CompareMetrics ==
  Compared /\ call.expected # <<>> =>
    LET out == call.out[1]
        hits == Cardinality(Hits(call.detected, call.expected)) IN
    /\ IsQuotient(out.accuracy, hits * 100, Len(call.expected))
    /\ out.recall = out.accuracy
    /\ IF call.detected = <<>> THEN out.precision = Zero
       ELSE IsQuotient(out.precision, hits * 100, Len(call.detected))

\* C14, its case: expected [C4, D4, E4] against detected [C4, X4] has given
\* accuracy = recall = 100/3 and precision = 50.
C14_Witness ==
  /\ Compared
  /\ call.expected = <<"C4", "D4", "E4">> /\ call.detected = <<"C4", "X4">>
  /\ IsQuotient(call.out[1].accuracy, 100, 3)
  /\ IsQuotient(call.out[1].recall, 100, 3)
  /\ IsQuotient(call.out[1].precision, 50, 1)

\* C15: with an empty expected sequence compare_with_expected returns
\* accuracy, precision and recall all 0, whatever was detected.
C15_EmptyExpectedIsZero ==
  call.fn = "compare_with_expected" /\ call.expected = <<>> =>
    call.out = <<[accuracy |-> Zero, precision |-> Zero, recall |-> Zero]>>

\* C15, its case: notes were detected, none was expected, and all three
\* metrics came back 0.
C15_Witness ==
  /\ Compared
  /\ call.expected = <<>> /\ Len(call.detected) > 1
  /\ call.out[1].precision = Zero

\* the fraction f is a percentage in [0, 100]
InPercentRange(f) == f.d > 0 /\ 0 <= f.n /\ f.n <= 100 * f.d

\* C16: accuracy, precision and recall each lie in [0, 100], and the number
\* of correct notes exceeds neither the number of detected nor the number of
\* expected notes.
C16_MetricsInRange ==
  Compared =>
    /\ InPercentRange(call.out[1].accuracy)
    /\ InPercentRange(call.out[1].precision)
    /\ InPercentRange(call.out[1].recall)
    /\ CorrectNotes(call.detected, call.expected) <= Len(call.detected)
    /\ CorrectNotes(call.detected, call.expected) <= Len(call.expected)

\* C16, its case: fewer notes detected than expected, a repeated expected
\* note among them, and every detected note correct: precision is 100.
C16_Witness ==
  /\ Compared
  /\ call.detected = <<"C4">> /\ call.expected = <<"C4", "C4">>
  /\ call.out[1].precision = Frac(100, 1)
  /\ call.out[1].accuracy = Frac(100, 2)

\* analyze_audio_submission has been called and has returned
Analyzed == call.fn = "analyze_audio_submission" /\ call.out # <<>>

\* C17: the overall score is an integer in [0, 100] and equals
\* floor((p + r + t) / 3) for the pitch, rhythm and timing accuracies p, r, t
\* of the result, each of which lies in [0, 100].
C17_ScoreIsFloorOfMean ==
  Analyzed =>
    LET out == call.out[1]
        p == out.pitch_accuracy
        \* (p + r + t) as a multiple of 1 / p.d
        sum == p.n + (out.rhythm_accuracy + out.timing_accuracy) * p.d IN
    /\ InPercentRange(p)
    /\ out.rhythm_accuracy \in 0..100 /\ out.timing_accuracy \in 0..100
    /\ out.score \in 0..100
    /\ out.score * 3 * p.d <= sum
    /\ sum < (out.score + 1) * 3 * p.d

\* C17, its case: one of two expected notes hit gives pitch accuracy 50, a
\* mean of 71 2/3 and the score 71.
C17_Witness ==
  /\ Analyzed
  /\ Len(call.expected) = 2
  /\ IsQuotient(call.out[1].pitch_accuracy, 50, 1)
  /\ call.out[1].score = 71

\* C18: every result an analysis returns carries a non-empty feedback text
\* and at least one suggestion.
C18_FeedbackAndSuggestions ==
  Analyzed =>
    /\ "feedback" \in DOMAIN call.out[1]
    /\ call.out[1].feedback # ""
    /\ "suggestions" \in DOMAIN call.out[1]
    /\ call.out[1].suggestions # <<>>

(***************************************************************************)
(* Determinism and frame of the analysis                                   *)
(***************************************************************************)
\* request p is an analyze request that has been answered with a result
AnalyzedOk(p) ==
  req[p].kind = "analyze" /\ req[p].pc = "done" /\ req[p].resp.code = 200

AnalyzeStep(p, i) ==
  /\ req'[p] # req[p]
  /\ \/ req[p].kind = "analyze" /\ req[p].sid = i
     \/ req[p].kind = "idle" /\ req'[p].kind = "analyze" /\ req'[p].sid = i

\* C20: a step of an analyze call for submission i creates and removes no
\* record and leaves the record of every other submission as it is.
C20_OnlyOwnRecord ==
  [][\A p \in Procs : \A i \in Ids :
       AnalyzeStep(p, i) =>
         /\ DOMAIN db' = DOMAIN db
         /\ \A j \in DOMAIN db : j # i => db'[j] = db[j]]_vars

\* C20, its case: analyses of two different submissions are in flight at
\* once, one has stored its result and the other has marked its failure.
C20_Witness ==
  \E p, q \in Procs : \E i, j \in DOMAIN db :
    /\ i # j /\ Analyzing(p, i) /\ Analyzing(q, j)
    /\ req[p].pc = "a_updated" /\ db[i].status = "analyzed"
    /\ req[q].pc = "a_raised" /\ db[j].status = "failed"

(***************************************************************************)
(* Properties of detect_notes                                              *)
(***************************************************************************)
\* a call of detect_notes has returned
Detected == call.fn = "detect_notes" /\ call.out # <<>>

\* the frames of the pitch track of the call whose frequency is above zero
VoicedFrames == {i \in 1..Len(call.pitches) : call.pitches[i] > 0}

\* the place in the returned list of the note of voiced frame i
NotePlace(i) == Cardinality({j \in VoicedFrames : j <= i})

\* C21: detect_notes returns one note symbol for each frame whose frequency
\* is above zero, in the order of the frames, and none for the other frames:
\* the list is as long as the number of such frames.
C21_OneNotePerVoicedFrame ==
  Detected =>
    /\ Len(call.out[1]) = Cardinality(VoicedFrames)
    /\ \A i \in VoicedFrames :
         call.out[1][NotePlace(i)] = midi_to_note(midi_note(call.pitches[i]))

\* C21, its case: a track of three frames, a frame without pitch between two
\* voiced frames of different notes.
C21_Witness ==
  /\ Detected
  /\ Len(call.pitches) = 3
  /\ call.pitches[1] > 0 /\ call.pitches[2] <= 0 /\ call.pitches[3] > 0
  /\ Len(call.out[1]) = 2
  /\ call.out[1][1] # call.out[1][2]

\* the MIDI number a note symbol stands for
NoteNumber(note) ==
  12 * (note[2] + 1) + (CHOOSE k \in 0..11 : PitchClasses[k + 1] = note[1])

\* C22: over the frames with a frequency above zero, a higher frequency never
\* gets a lower rounded MIDI number, and the centre frequency of a note gets
\* that note's symbol.
C22_MonotoneAndRoundTrip ==
  Detected =>
    /\ \A i, j \in VoicedFrames :
         call.pitches[i] <= call.pitches[j] =>
           NoteNumber(call.out[1][NotePlace(i)])
             <= NoteNumber(call.out[1][NotePlace(j)])
    /\ \A i \in VoicedFrames : \A midi \in SampledMidi :
         call.pitches[i] = midi_to_hz(midi) =>
           call.out[1][NotePlace(i)] = midi_to_note(midi)

\* C22, its case: the centre frequency of B3, a frequency just below the
\* B3/C4 boundary and one just above it, detected as B3, B3 and C4.
C22_Witness ==
  /\ Detected
  /\ call.pitches = <<midi_to_hz(59), 25400, 25440>>
  /\ call.out[1] = <<midi_to_note(59), midi_to_note(59), midi_to_note(60)>>


(***************************************************************************)
(* Range of the score                                                      *)
(***************************************************************************)
\* C28: the score analyze_audio_submission returns lies between 55 and 88,
\* and it is 55 when the expected sequence is empty.
C28_ScoreRange ==
  Analyzed =>
    /\ call.out[1].score \in 55..88
    /\ call.expected = <<>> => call.out[1].score = 55

\* C28, its case: every expected note was played, which gives the highest
\* score.
C28_Witness ==
  /\ Analyzed
  /\ call.expected # <<>>
  /\ call.detected = call.expected
  /\ call.out[1].score = 88


(***************************************************************************)
(* Ownership, deletion and the pending status                              *)
(***************************************************************************)
\* slot p takes a step of an analyze, feedback or delete request for
\* submission i, which has a record that belongs to another user
ForeignStep(p, i) ==
  /\ req'[p] # req[p]
  /\ req'[p].kind \in ByIdKinds
  /\ req'[p].sid = i
  /\ i \in DOMAIN db
  /\ db[i].user_id # req'[p].user

\* C23: a request of a user for a submission of another user changes no
\* record, and it is answered with an error that carries nothing of the
\* submission.
C23_NonOwnerGetsNothing ==
  [][\A p \in Procs : \A i \in Ids :
       ForeignStep(p, i) =>
         /\ db' = db
         /\ req'[p].pc = "done"
         /\ req'[p].resp.code # 200
         /\ req'[p].resp.body = <<>>
         /\ req'[p].resp.detail \in {NotFound404, GetSubmissionError}]_vars

\* C23, its case: bob's requests for two submissions of alice have been
\* answered, one of them analyzed and the other not, while both records are
\* as their owner left them.
C23_Witness ==
  \E i, j \in DOMAIN db :
    /\ db[i].status = "analyzed" /\ db[j].status = "pending"
    /\ req["r1"].user = "bob" /\ req["r1"].sid = i /\ req["r1"].pc = "done"
    /\ req["r2"].user = "bob" /\ req["r2"].sid = j /\ req["r2"].pc = "done"
    /\ req["r1"].kind = "analyze" /\ req["r2"].kind = "delete"

\* C25: a submission has a record exactly when it has a backing file: the
\* file paths of the records are the objects of the bucket.
C25_RecordIffFile ==
  {db[i].file_path : i \in DOMAIN db} = storage

\* C26: a submission with status 'pending' has no score and no feedback, and
\* a submission that has left 'pending' does not return to it.
C26_PendingIsFresh ==
  [][\A i \in DOMAIN db' :
       /\ db'[i].status = "pending" =>
            db'[i].score = NULL /\ db'[i].feedback = NULL
       /\ (i \in DOMAIN db /\ db[i].status # "pending") =>
            db'[i].status # "pending"]_vars

\* C26, its case: one submission is still pending, and another one, analyzed
\* before, has failed a later analysis and keeps its score.
C26_Witness ==
  \E i, j \in DOMAIN db :
    /\ db[i].status = "pending" /\ db[i].score = NULL
    /\ db[j].status = "failed" /\ db[j].score # NULL

\* C27: an analyze request for an id without a record changes no record and
\* creates none, and it ends with an error.
C27_UnknownIdRejected ==
  [][\A p \in Procs : \A i \in Ids :
       (AnalyzeStep(p, i) /\ i \notin DOMAIN db) =>
         /\ db' = db
         /\ req'[p].pc = "done" => req'[p].resp.code # 200]_vars

\* C27, its case: while a record exists, an analyze request for an id that
\* has none has been answered.
C27_Witness ==
  \E p \in Procs :
    /\ req[p].kind = "analyze" /\ req[p].pc = "done"
    /\ req[p].sid \notin DOMAIN db
    /\ req[p].resp.code = 500
    /\ db # <<>>


(***************************************************************************)
(* Authentication                                                          *)
(***************************************************************************)
\* a request has passed through the middleware
Dispatched == call.fn = "dispatch" /\ call.out # <<>>

\* the path is one of the listed public routes, or lies below one of them
\* other than the root
ListedPublic(path) ==
  \E k \in DOMAIN PUBLIC_ROUTES :
    \/ path = PUBLIC_ROUTES[k]
    \/ /\ PUBLIC_ROUTES[k] # <<"/">>
       /\ startswith(path, PUBLIC_ROUTES[k] \o <<"/">>)

\* the request carries a bearer token that verify_token accepts
Authenticated(authorization) ==
  /\ authorization # NoHeader
  /\ Credentials(authorization) # <<>>

\* C29: a request without a valid bearer token reaches its handler only when
\* its path is one of the listed public routes; on any other path it is
\* answered with 401.
C29_OnlyPublicWithoutToken ==
  (Dispatched /\ ~Authenticated(call.authorization)) =>
    IF ListedPublic(call.path)
    THEN call.out[1].handled
    ELSE ~call.out[1].handled /\ call.out[1].status_code = 401


(***************************************************************************)
(* Content uploads                                                         *)
(***************************************************************************)
\* the errors with which upload_content ends after the file was written: the
\* insert returned no row, or the insert raised
AfterWriteErrors ==
  {HTTPError(400, "Failed to create content record"),
   HTTPError(500, "Error uploading content")}

\* C30: when a call of upload_content has ended with an error after its file
\* was written, that file is no longer in the upload directory.
C30_NoFileAfterError ==
  (content.pc = "idle" /\ content.out \in AfterWriteErrors) =>
    content.next \notin content.files

====
